---- MODULE Spec2Model ----
(***************************************************************************)
(* Mini C front end (mini_c_parser.py): the Lexer, the recursive-descent   *)
(* Parser and the facade parse_mini_c, as a state machine.                 *)
(*                                                                         *)
(* A string is a sequence of one-character strings: "int" is               *)
(* <<"i","n","t">>.  Offsets are 0-based as in the Python code, so the     *)
(* character at offset p of s is s[p + 1].                                 *)
(***************************************************************************)
EXTENDS Integers, Sequences, FiniteSets, TLC

VARIABLES
    source,         \* Lexer.source
    position,       \* Lexer.position
    line,           \* Lexer.line
    column,         \* Lexer.column
    tokens,         \* Lexer.tokens
    lexer_pc,       \* where Lexer.tokenize is: "new" (not called), "loop", "returned", "raised"
    p_tokens,       \* Parser.tokens
    p_position,     \* Parser.position
    statements,     \* the local list `statements` of Parser.parse
    stack,          \* the parser's call stack below Parser.parse, innermost frame last
    ret,            \* the node the last completed parse_* call returned
    parser_pc,      \* where the parser is: "none" (not constructed), "new", "parse",
                    \* "factor", "term", "expression", "assignment", "paren",
                    \* "returned", "raised"
    raised,         \* the exception a stage raised inside the try block, or None
    ast,            \* what parse_mini_c returned to its caller, or None
    error,          \* what parse_mini_c raised to its caller, or None
    stdout,         \* what parse_mini_c printed, one entry per print call
    facade_pc,      \* where parse_mini_c is: "try", "returned", "raised"
    lex_returns,    \* the token lists the calls of Lexer.tokenize returned, in order
    parse_returns,  \* the Programs the calls of Parser.parse returned, in order
    output,         \* ASTPrettyPrinter.output
    renders         \* the calls of print_ast so far: the node passed and the text returned

lexer_vars == <<source, position, line, column, tokens, lexer_pc>>
parser_vars == <<p_tokens, p_position, statements, stack, ret, parser_pc>>
facade_vars == <<raised, ast, error, stdout, facade_pc>>
caller_vars == <<lex_returns, parse_returns>>
printer_vars == <<output, renders>>
vars == <<lexer_vars, parser_vars, facade_vars, caller_vars, printer_vars>>

None == [kind |-> "None"]

(***************************************************************************)
(* Characters                                                              *)
(***************************************************************************)
Letters == {"a", "b", "c", "d", "e", "f", "g", "h", "i", "j", "k", "l", "m",
            "n", "o", "p", "q", "r", "s", "t", "u", "v", "w", "x", "y", "z",
            "A", "B", "C", "X", "Y", "Z"}

DigitChars == <<"0", "1", "2", "3", "4", "5", "6", "7", "8", "9">>

Digits == {DigitChars[i] : i \in 1..Len(DigitChars)}

\* the characters the regular expression class \w matches
WordChars == Letters \cup Digits \cup {"_"}

\* str.isspace()
IsSpace(c) == c \in {" ", "\n", "\t", "\r"}

\* Lexer.current_char; None at the end of the source
current_char(s, p) == IF p >= Len(s) THEN None ELSE s[p + 1]

(***************************************************************************)
(* Lexer cursor: [position, line, column]                                  *)
(***************************************************************************)
\* advance without the newline branch: the line never changes
advance_same_line(s, cur) ==
    IF cur.position < Len(s)
    THEN [position |-> cur.position + 1, line |-> cur.line, column |-> cur.column + 1]
    ELSE cur

\* Lexer.advance
advance(s, cur) ==
    IF cur.position < Len(s)
    THEN IF s[cur.position + 1] = "\n"
         THEN [position |-> cur.position + 1, line |-> cur.line + 1, column |-> 1]
         ELSE [position |-> cur.position + 1, line |-> cur.line, column |-> cur.column + 1]
    ELSE cur

RECURSIVE advance_n(_, _, _)
\* `for _ in range(len(value)): self.advance()`
advance_n(s, cur, n) == IF n = 0 THEN cur ELSE advance_n(s, advance(s, cur), n - 1)

RECURSIVE skip_whitespace(_, _)
\* Lexer.skip_whitespace
skip_whitespace(s, cur) ==
    IF cur.position < Len(s) /\ IsSpace(s[cur.position + 1])
    THEN skip_whitespace(s, advance(s, cur))
    ELSE cur

(***************************************************************************)
(* Lexical patterns, matched anchored at offset p as re.Pattern.match(s, p)*)
(* does: the look-behind of \b sees the character before p.                *)
(***************************************************************************)
RECURSIVE RunLen(_, _, _)
\* the length of the maximal run of characters of class cls from offset p
RunLen(s, p, cls) ==
    IF p < Len(s) /\ s[p + 1] \in cls THEN 1 + RunLen(s, p + 1, cls) ELSE 0

\* \b at offset p: exactly one of the characters before and after p is a word character
WordBoundary(s, p) ==
    LET before == p > 0 /\ s[p] \in WordChars
        after == p < Len(s) /\ s[p + 1] \in WordChars
    IN before # after

\* r'int', the keyword pattern without its word boundaries
MatchKeywordInt_prefix(s, p) ==
    IF p + 3 <= Len(s) /\ SubSeq(s, p + 1, p + 3) = <<"i", "n", "t">> THEN 3 ELSE 0

\* r'\bint\b'
MatchKeywordInt(s, p) ==
    IF /\ p + 3 <= Len(s)
       /\ SubSeq(s, p + 1, p + 3) = <<"i", "n", "t">>
       /\ WordBoundary(s, p)
       /\ WordBoundary(s, p + 3)
    THEN 3 ELSE 0

\* r'[a-zA-Z_][a-zA-Z0-9_]*'
MatchIdentifier(s, p) ==
    IF p < Len(s) /\ s[p + 1] \in Letters \cup {"_"}
    THEN 1 + RunLen(s, p + 1, WordChars) ELSE 0

\* r'\d+'
MatchNumber(s, p) == RunLen(s, p, Digits)

\* a one-character pattern such as r'\+'
MatchChar(s, p, c) == IF p < Len(s) /\ s[p + 1] = c THEN 1 ELSE 0

\* Lexer.token_patterns, in priority order
token_patterns ==
    << [pattern |-> "int", type |-> "INT"],
       [pattern |-> "identifier", type |-> "IDENTIFIER"],
       [pattern |-> "digits", type |-> "NUMBER"],
       [pattern |-> "+", type |-> "PLUS"],
       [pattern |-> "-", type |-> "MINUS"],
       [pattern |-> "*", type |-> "MULTIPLY"],
       [pattern |-> "/", type |-> "DIVIDE"],
       [pattern |-> "=", type |-> "ASSIGN"],
       [pattern |-> ";", type |-> "SEMICOLON"],
       [pattern |-> "(", type |-> "LPAREN"],
       [pattern |-> ")", type |-> "RPAREN"] >>

\* the length pattern.match(source, position) matches, 0 when it does not match
MatchLen(pattern, s, p) ==
    CASE pattern = "int" -> MatchKeywordInt(s, p)
      [] pattern = "identifier" -> MatchIdentifier(s, p)
      [] pattern = "digits" -> MatchNumber(s, p)
      [] OTHER -> MatchChar(s, p, pattern)

\* the `for pattern, token_type in self.compiled_patterns` loop: the index of the
\* first pattern that matches at offset p, 0 when none does
FirstMatch(s, p) ==
    LET hits == {i \in 1..Len(token_patterns) : MatchLen(token_patterns[i].pattern, s, p) > 0}
    IN IF hits = {} THEN 0 ELSE CHOOSE i \in hits : \A j \in hits : i <= j

Token(type, value, ln, col) == [type |-> type, value |-> value, line |-> ln, column |-> col]

LexerError(char, ln, col) == [kind |-> "LexerError", char |-> char, line |-> ln, column |-> col]

Cursor == [position |-> position, line |-> line, column |-> column]

(***************************************************************************)
(* Lexer.tokenize                                                          *)
(***************************************************************************)
\* the call of tokenize: `self.tokens = []`
TokenizeCall ==
    /\ facade_pc = "try"
    /\ lexer_pc = "new"
    /\ tokens' = <<>>
    /\ lexer_pc' = "loop"
    /\ UNCHANGED <<source, position, line, column, parser_vars, facade_vars>>
    /\ UNCHANGED <<caller_vars, printer_vars>>

\* one iteration of the main loop that finds a matching pattern and emits a token
TokenizeMatch ==
    /\ lexer_pc = "loop"
    /\ position < Len(source)
    /\ LET c == skip_whitespace(source, Cursor)
           i == FirstMatch(source, c.position)
       IN /\ c.position < Len(source)
          /\ i > 0
          /\ LET n == MatchLen(token_patterns[i].pattern, source, c.position)
                 value == SubSeq(source, c.position + 1, c.position + n)
                 after == advance_n(source, c, Len(value))
             IN /\ tokens' = Append(tokens, Token(token_patterns[i].type, value, c.line, c.column))
                /\ position' = after.position
                /\ line' = after.line
                /\ column' = after.column
    /\ UNCHANGED <<source, lexer_pc, parser_vars, facade_vars>>
    /\ UNCHANGED <<caller_vars, printer_vars>>

\* the raise naming the line and column held before the whitespace was skipped
TokenizeRaise_preskip ==
    /\ lexer_pc = "loop"
    /\ position < Len(source)
    /\ LET c == skip_whitespace(source, Cursor)
       IN /\ c.position < Len(source)
          /\ FirstMatch(source, c.position) = 0
          /\ position' = c.position
          /\ line' = c.line
          /\ column' = c.column
          /\ raised' = LexerError(current_char(source, c.position), line, column)
    /\ lexer_pc' = "raised"
    /\ UNCHANGED <<source, tokens, parser_vars, ast, error, stdout, facade_pc>>
    /\ UNCHANGED <<caller_vars, printer_vars>>

\* one iteration of the main loop in which no pattern matches: raise LexerError
TokenizeRaise ==
    /\ lexer_pc = "loop"
    /\ position < Len(source)
    /\ LET c == skip_whitespace(source, Cursor)
       IN /\ c.position < Len(source)
          /\ FirstMatch(source, c.position) = 0
          /\ position' = c.position
          /\ line' = c.line
          /\ column' = c.column
          /\ raised' = LexerError(current_char(source, c.position), c.line, c.column)
    /\ lexer_pc' = "raised"
    /\ UNCHANGED <<source, tokens, parser_vars, ast, error, stdout, facade_pc>>
    /\ UNCHANGED <<caller_vars, printer_vars>>

\* the break returning the token list without an EOF token
TokenizeBreak_no_eof ==
    /\ lexer_pc = "loop"
    /\ position < Len(source)
    /\ LET c == skip_whitespace(source, Cursor)
       IN /\ c.position >= Len(source)
          /\ position' = c.position
          /\ line' = c.line
          /\ column' = c.column
    /\ lexer_pc' = "returned"
    /\ UNCHANGED <<source, tokens, parser_vars, facade_vars>>
    /\ lex_returns' = Append(lex_returns, tokens)
    /\ UNCHANGED <<parse_returns, printer_vars>>

\* the last iteration, which skips trailing whitespace and breaks; then the EOF
\* token is appended and the list returned
TokenizeBreak ==
    /\ lexer_pc = "loop"
    /\ position < Len(source)
    /\ LET c == skip_whitespace(source, Cursor)
       IN /\ c.position >= Len(source)
          /\ position' = c.position
          /\ line' = c.line
          /\ column' = c.column
          /\ tokens' = Append(tokens, Token("EOF", <<>>, c.line, c.column))
    /\ lexer_pc' = "returned"
    /\ UNCHANGED <<source, parser_vars, facade_vars>>
    /\ lex_returns' = Append(lex_returns, tokens')
    /\ UNCHANGED <<parse_returns, printer_vars>>

\* the loop condition fails: the EOF token is appended and the list returned
TokenizeReturn ==
    /\ lexer_pc = "loop"
    /\ position >= Len(source)
    /\ tokens' = Append(tokens, Token("EOF", <<>>, line, column))
    /\ lexer_pc' = "returned"
    /\ UNCHANGED <<source, position, line, column, parser_vars, facade_vars>>
    /\ lex_returns' = Append(lex_returns, tokens')
    /\ UNCHANGED <<parse_returns, printer_vars>>

(***************************************************************************)
(* AST nodes                                                               *)
(***************************************************************************)
Program(stmts) == [kind |-> "Program", statements |-> stmts]

VariableDeclaration(var_type, name) ==
    [kind |-> "VariableDeclaration", var_type |-> var_type, name |-> name]

Assignment(variable, expression) ==
    [kind |-> "Assignment", variable |-> variable, expression |-> expression]

BinaryOperation(left, operator, right) ==
    [kind |-> "BinaryOperation", left |-> left, operator |-> operator, right |-> right]

Number(value) == [kind |-> "Number", value |-> value]

Variable(name) == [kind |-> "Variable", name |-> name]

ParseError(message, token) == [kind |-> "ParseError", message |-> message, token |-> token]

\* the value of the digit character c
DigitValue(c) == (CHOOSE i \in 1..Len(DigitChars) : DigitChars[i] = c) - 1

RECURSIVE int(_)
\* int(text) for a text of decimal digits
int(text) ==
    IF text = <<>> THEN 0
    ELSE 10 * int(SubSeq(text, 1, Len(text) - 1)) + DigitValue(text[Len(text)])

(***************************************************************************)
(* Parser                                                                  *)
(***************************************************************************)
\* Parser.current_token, which the code keeps equal to tokens[position]
current_token == p_tokens[p_position + 1]

\* Parser.advance: the position after it
p_advance(toks, pos) == IF pos < Len(toks) - 1 THEN pos + 1 ELSE pos

\* Parser.expect at position pos: the token consumed and the position after it, or
\* the ParseError raised
expect(toks, pos, token_type) ==
    LET tok == toks[pos + 1]
    IN IF tok.type # token_type
       THEN [ok |-> FALSE,
             error |-> ParseError(<<"Expected", token_type, "got", tok.type>>, tok)]
       ELSE [ok |-> TRUE, token |-> tok, position |-> p_advance(toks, pos)]

\* the frames a call of parse_expression starts with: its own and that of the
\* parse_term it calls first, which in turn calls parse_factor
ExpressionFrames ==
    << [fn |-> "parse_expression", left |-> None, operator |-> None],
       [fn |-> "parse_term", left |-> None, operator |-> None] >>

Top == stack[Len(stack)]

Pop == SubSeq(stack, 1, Len(stack) - 1)

\* a raise inside the parser: the exception unwinds every frame
ParserRaise(exc) ==
    /\ raised' = exc
    /\ parser_pc' = "raised"
    /\ stack' = <<>>

\* Parser(tokens)
ParserNew ==
    /\ facade_pc = "try"
    /\ lexer_pc = "returned"
    /\ parser_pc = "none"
    /\ p_tokens' = tokens
    /\ p_position' = 0
    /\ parser_pc' = "new"
    /\ UNCHANGED <<lexer_vars, statements, stack, ret, facade_vars>>
    /\ UNCHANGED <<caller_vars, printer_vars>>

\* the call of parse: `statements = []`
ParseCall ==
    /\ parser_pc = "new"
    /\ statements' = <<>>
    /\ parser_pc' = "parse"
    /\ UNCHANGED <<lexer_vars, p_tokens, p_position, stack, ret, facade_vars>>
    /\ UNCHANGED <<caller_vars, printer_vars>>

\* the statement loop ends at EOF: return Program(statements)
ParseReturn ==
    /\ parser_pc = "parse"
    /\ current_token.type = "EOF"
    /\ ret' = Program(statements)
    /\ parser_pc' = "returned"
    /\ UNCHANGED <<lexer_vars, p_tokens, p_position, statements, stack, facade_vars>>
    /\ parse_returns' = Append(parse_returns, ret')
    /\ UNCHANGED <<lex_returns, printer_vars>>

\* Parser.parse_declaration naming the declaration after the keyword token
ParseDeclaration_keyword ==
    /\ parser_pc = "parse"
    /\ current_token.type = "INT"
    /\ LET e1 == expect(p_tokens, p_position, "INT")
           e2 == expect(p_tokens, e1.position, "IDENTIFIER")
           e3 == expect(p_tokens, e2.position, "SEMICOLON")
       IN IF ~e2.ok
          THEN /\ ParserRaise(e2.error)
               /\ p_position' = e1.position
               /\ UNCHANGED statements
          ELSE IF ~e3.ok
          THEN /\ ParserRaise(e3.error)
               /\ p_position' = e2.position
               /\ UNCHANGED statements
          ELSE /\ statements' = Append(statements, VariableDeclaration(<<"i", "n", "t">>, e1.token.value))
               /\ p_position' = e3.position
               /\ UNCHANGED <<parser_pc, stack, raised>>
    /\ UNCHANGED <<lexer_vars, p_tokens, ret, ast, error, stdout, facade_pc>>
    /\ UNCHANGED <<caller_vars, printer_vars>>

\* Parser.parse_declaration, called from the statement loop
ParseDeclaration ==
    /\ parser_pc = "parse"
    /\ current_token.type = "INT"
    /\ LET e1 == expect(p_tokens, p_position, "INT")
           e2 == expect(p_tokens, e1.position, "IDENTIFIER")
           e3 == expect(p_tokens, e2.position, "SEMICOLON")
       IN IF ~e2.ok
          THEN /\ ParserRaise(e2.error)
               /\ p_position' = e1.position
               /\ UNCHANGED statements
          ELSE IF ~e3.ok
          THEN /\ ParserRaise(e3.error)
               /\ p_position' = e2.position
               /\ UNCHANGED statements
          ELSE /\ statements' = Append(statements, VariableDeclaration(<<"i", "n", "t">>, e2.token.value))
               /\ p_position' = e3.position
               /\ UNCHANGED <<parser_pc, stack, raised>>
    /\ UNCHANGED <<lexer_vars, p_tokens, ret, ast, error, stdout, facade_pc>>
    /\ UNCHANGED <<caller_vars, printer_vars>>

\* Parser.parse_assignment up to its call of parse_expression
ParseAssignment ==
    /\ parser_pc = "parse"
    /\ current_token.type = "IDENTIFIER"
    /\ LET e1 == expect(p_tokens, p_position, "IDENTIFIER")
           e2 == expect(p_tokens, e1.position, "ASSIGN")
       IN IF ~e2.ok
          THEN /\ ParserRaise(e2.error)
               /\ p_position' = e1.position
          ELSE /\ stack' = <<[fn |-> "parse_assignment", name_token |-> e1.token]>> \o ExpressionFrames
               /\ p_position' = e2.position
               /\ parser_pc' = "factor"
               /\ UNCHANGED raised
    /\ UNCHANGED <<lexer_vars, p_tokens, statements, ret, ast, error, stdout, facade_pc>>
    /\ UNCHANGED <<caller_vars, printer_vars>>

\* the statement loop's else branch
ParseUnexpected ==
    /\ parser_pc = "parse"
    /\ current_token.type \notin {"EOF", "INT", "IDENTIFIER"}
    /\ ParserRaise(ParseError(<<"Unexpected token", current_token.type>>, current_token))
    /\ UNCHANGED <<lexer_vars, p_tokens, p_position, statements, ret, ast, error, stdout, facade_pc>>
    /\ UNCHANGED <<caller_vars, printer_vars>>

\* `[TokenType.PLUS, TokenType.MINUS]`, the operators parse_expression folds
ExpressionOperators == {"PLUS", "MINUS"}

\* the operators of a flat grammar, in which + and - bind as tightly as * and /
TermOperators_flat == {"MULTIPLY", "DIVIDE", "PLUS", "MINUS"}

\* `[TokenType.MULTIPLY, TokenType.DIVIDE]`, the operators parse_term folds
TermOperators == {"MULTIPLY", "DIVIDE"}

\* the fold with its operands exchanged
Fold_exchanged(frame, operand) ==
    IF frame.left = None THEN operand
    ELSE BinaryOperation(operand, frame.operator, frame.left)

\* the node a parse_term or parse_expression frame holds once the operand `operand`
\* has come back: `left = operand` for the first, and
\* `left = BinaryOperation(left, operator, right)` for the later ones
Fold(frame, operand) ==
    IF frame.left = None THEN operand
    ELSE BinaryOperation(frame.left, frame.operator, operand)

\* parse_factor, first branch: a NUMBER token
FactorNumber ==
    /\ parser_pc = "factor"
    /\ current_token.type = "NUMBER"
    /\ ret' = Number(int(current_token.value))
    /\ p_position' = p_advance(p_tokens, p_position)
    /\ parser_pc' = "term"
    /\ UNCHANGED <<lexer_vars, p_tokens, statements, stack, facade_vars>>
    /\ UNCHANGED <<caller_vars, printer_vars>>

\* parse_factor, second branch: an IDENTIFIER token
FactorVariable ==
    /\ parser_pc = "factor"
    /\ current_token.type = "IDENTIFIER"
    /\ ret' = Variable(current_token.value)
    /\ p_position' = p_advance(p_tokens, p_position)
    /\ parser_pc' = "term"
    /\ UNCHANGED <<lexer_vars, p_tokens, statements, stack, facade_vars>>
    /\ UNCHANGED <<caller_vars, printer_vars>>

\* the third branch descending without consuming the parenthesis
FactorParen_unconsumed ==
    /\ parser_pc = "factor"
    /\ current_token.type = "LPAREN"
    /\ stack' = stack \o <<[fn |-> "parse_factor"]>> \o ExpressionFrames
    /\ UNCHANGED <<lexer_vars, p_tokens, p_position, statements, ret, parser_pc, facade_vars>>
    /\ UNCHANGED <<caller_vars, printer_vars>>

\* parse_factor, third branch up to its call of parse_expression
FactorParen ==
    /\ parser_pc = "factor"
    /\ current_token.type = "LPAREN"
    /\ p_position' = p_advance(p_tokens, p_position)
    /\ stack' = stack \o <<[fn |-> "parse_factor"]>> \o ExpressionFrames
    /\ UNCHANGED <<lexer_vars, p_tokens, statements, ret, parser_pc, facade_vars>>
    /\ UNCHANGED <<caller_vars, printer_vars>>

\* the else branch naming the token before the current one
FactorUnexpected_previous ==
    /\ parser_pc = "factor"
    /\ current_token.type \notin {"NUMBER", "IDENTIFIER", "LPAREN"}
    /\ ParserRaise(ParseError(<<"Unexpected token in expression", current_token.type>>,
                              p_tokens[p_position]))
    /\ UNCHANGED <<lexer_vars, p_tokens, p_position, statements, ret, ast, error, stdout, facade_pc>>
    /\ UNCHANGED <<caller_vars, printer_vars>>

\* parse_factor, else branch
FactorUnexpected ==
    /\ parser_pc = "factor"
    /\ current_token.type \notin {"NUMBER", "IDENTIFIER", "LPAREN"}
    /\ ParserRaise(ParseError(<<"Unexpected token in expression", current_token.type>>, current_token))
    /\ UNCHANGED <<lexer_vars, p_tokens, p_position, statements, ret, ast, error, stdout, facade_pc>>
    /\ UNCHANGED <<caller_vars, printer_vars>>

\* the third branch advancing past whatever follows the expression, unchecked
FactorParenClose_unchecked ==
    /\ parser_pc = "paren"
    /\ p_position' = p_advance(p_tokens, p_position)
    /\ stack' = Pop
    /\ parser_pc' = "term"
    /\ UNCHANGED <<lexer_vars, p_tokens, statements, ret, facade_vars>>
    /\ UNCHANGED <<caller_vars, printer_vars>>

\* parse_factor's third branch after parse_expression returned: expect(RPAREN)
\* and return the expression
FactorParenClose ==
    /\ parser_pc = "paren"
    /\ LET e == expect(p_tokens, p_position, "RPAREN")
       IN IF ~e.ok
          THEN /\ ParserRaise(e.error)
               /\ UNCHANGED p_position
          ELSE /\ p_position' = e.position
               /\ stack' = Pop
               /\ parser_pc' = "term"
               /\ UNCHANGED raised
    /\ UNCHANGED <<lexer_vars, p_tokens, statements, ret, ast, error, stdout, facade_pc>>
    /\ UNCHANGED <<caller_vars, printer_vars>>

\* parse_term after a parse_factor call returned, the loop going on: a * or /
\* follows, so save the operator, advance and call parse_factor again
TermOperator ==
    /\ parser_pc = "term"
    /\ current_token.type \in TermOperators
    /\ stack' = Pop \o <<[fn |-> "parse_term", left |-> Fold(Top, ret),
                          operator |-> current_token.value]>>
    /\ p_position' = p_advance(p_tokens, p_position)
    /\ parser_pc' = "factor"
    /\ UNCHANGED <<lexer_vars, p_tokens, statements, ret, facade_vars>>
    /\ UNCHANGED <<caller_vars, printer_vars>>

\* parse_term after a parse_factor call returned, the loop ending: return left
TermReturn ==
    /\ parser_pc = "term"
    /\ current_token.type \notin TermOperators
    /\ ret' = Fold(Top, ret)
    /\ stack' = Pop
    /\ parser_pc' = "expression"
    /\ UNCHANGED <<lexer_vars, p_tokens, p_position, statements, facade_vars>>
    /\ UNCHANGED <<caller_vars, printer_vars>>

\* parse_expression after a parse_term call returned, the loop going on: a + or -
\* follows, so save the operator, advance and call parse_term again
ExpressionOperator ==
    /\ parser_pc = "expression"
    /\ current_token.type \in ExpressionOperators
    /\ stack' = Pop \o <<[fn |-> "parse_expression", left |-> Fold(Top, ret),
                          operator |-> current_token.value],
                         [fn |-> "parse_term", left |-> None, operator |-> None]>>
    /\ p_position' = p_advance(p_tokens, p_position)
    /\ parser_pc' = "factor"
    /\ UNCHANGED <<lexer_vars, p_tokens, statements, ret, facade_vars>>
    /\ UNCHANGED <<caller_vars, printer_vars>>

\* parse_expression after a parse_term call returned, the loop ending: return left
\* to the caller, parse_assignment or parse_factor
ExpressionReturn ==
    /\ parser_pc = "expression"
    /\ current_token.type \notin ExpressionOperators
    /\ ret' = Fold(Top, ret)
    /\ stack' = Pop
    /\ parser_pc' = IF stack[Len(stack) - 1].fn = "parse_assignment" THEN "assignment" ELSE "paren"
    /\ UNCHANGED <<lexer_vars, p_tokens, p_position, statements, facade_vars>>
    /\ UNCHANGED <<caller_vars, printer_vars>>

\* parse_assignment after parse_expression returned: expect(SEMICOLON), build the
\* Assignment, and back in the statement loop append it
AssignmentEnd ==
    /\ parser_pc = "assignment"
    /\ LET e == expect(p_tokens, p_position, "SEMICOLON")
       IN IF ~e.ok
          THEN /\ ParserRaise(e.error)
               /\ UNCHANGED <<p_position, statements>>
          ELSE /\ p_position' = e.position
               /\ statements' = Append(statements, Assignment(Variable(Top.name_token.value), ret))
               /\ stack' = Pop
               /\ parser_pc' = "parse"
               /\ UNCHANGED raised
    /\ UNCHANGED <<lexer_vars, p_tokens, ret, ast, error, stdout, facade_pc>>
    /\ UNCHANGED <<caller_vars, printer_vars>>

(***************************************************************************)
(* parse_mini_c                                                            *)
(***************************************************************************)
\* str(e) of the exception e, the text print writes after "Error: "
ErrorText(e) ==
    IF e.kind = "LexerError"
    THEN <<"Lexer Error at", e.line, e.column, "Unexpected character", e.char>>
    ELSE <<"Parse Error at", e.token.line, e.token.column, e.message>>

\* `return ast`
FacadeReturn ==
    /\ facade_pc = "try"
    /\ parser_pc = "returned"
    /\ ast' = ret
    /\ facade_pc' = "returned"
    /\ UNCHANGED <<lexer_vars, parser_vars, raised, error, stdout>>
    /\ UNCHANGED <<caller_vars, printer_vars>>

\* the except clause printing the error and returning None instead of re-raising
FacadeExcept_swallow ==
    /\ facade_pc = "try"
    /\ raised # None
    /\ stdout' = Append(stdout, <<"Error:", ErrorText(raised)>>)
    /\ facade_pc' = "returned"
    /\ UNCHANGED <<lexer_vars, parser_vars, raised, ast, error>>
    /\ UNCHANGED <<caller_vars, printer_vars>>

\* the except clause re-raising the error without printing it
FacadeExcept_silent ==
    /\ facade_pc = "try"
    /\ raised # None
    /\ error' = raised
    /\ facade_pc' = "raised"
    /\ UNCHANGED <<lexer_vars, parser_vars, raised, ast, stdout>>
    /\ UNCHANGED <<caller_vars, printer_vars>>

\* the except clause: print the error and re-raise it
FacadeExcept ==
    /\ facade_pc = "try"
    /\ raised # None
    /\ stdout' = Append(stdout, <<"Error:", ErrorText(raised)>>)
    /\ error' = raised
    /\ facade_pc' = "raised"
    /\ UNCHANGED <<lexer_vars, parser_vars, raised, ast>>
    /\ UNCHANGED <<caller_vars, printer_vars>>

(***************************************************************************)
(* ASTPrettyPrinter.  A text is a sequence of pieces; the box-drawing      *)
(* pieces of the source are written in ASCII.                              *)
(***************************************************************************)
\* "└── "
LastConnector == "\\-- "

\* "├── "
MidConnector == "|-- "

\* "    "
Blank == "    "

\* "│   "
Bar == "|   "

RECURSIVE str(_)
\* str(n) of a non-negative int, as the f-string formats Number.value
str(n) ==
    IF n < 10 THEN <<DigitChars[n + 1]>>
    ELSE str(n \div 10) \o <<DigitChars[(n % 10) + 1]>>

RECURSIVE join(_)
\* "\n".join(lines)
join(lines) ==
    IF lines = <<>> THEN <<>>
    ELSE IF Len(lines) = 1 THEN lines[1]
    ELSE lines[1] \o <<"\n">> \o join(Tail(lines))

RECURSIVE _print_node(_, _, _, _)
RECURSIVE print_statements(_, _, _, _, _)
\* the for loop of the Program branch from statement i on: the lines of out
\* followed by those of the statements left
print_statements(out, stmts, i, prefix, is_last) ==
    IF i > Len(stmts) THEN out
    ELSE LET is_last_child == (i - 1 = Len(stmts) - 1)
             child_prefix == prefix \o <<IF is_last THEN Blank ELSE Bar>>
         IN print_statements(_print_node(out, stmts[i], child_prefix, is_last_child),
                             stmts, i + 1, prefix, is_last)

\* _print_node(node, prefix, is_last) on a printer whose self.output is out:
\* self.output after the call
_print_node(out, node, prefix, is_last) ==
    LET connector == IF is_last THEN LastConnector ELSE MidConnector
        child_prefix == prefix \o <<IF is_last THEN Blank ELSE Bar>>
    IN CASE node.kind = "Program" ->
              print_statements(Append(out, prefix \o <<"Program">>),
                               node.statements, 1, prefix, is_last)
         [] node.kind = "VariableDeclaration" ->
              Append(out, prefix \o <<connector, "VariableDeclaration (type: ">>
                            \o node.var_type \o <<", name: ">> \o node.name \o <<")">>)
         [] node.kind = "Assignment" ->
              _print_node(_print_node(Append(out, prefix \o <<connector, "Assignment">>),
                                      node.variable, child_prefix, FALSE),
                          node.expression, child_prefix, TRUE)
         [] node.kind = "BinaryOperation" ->
              _print_node(_print_node(Append(out, prefix \o <<connector, "BinaryOperation (operator: ">>
                                                    \o node.operator \o <<")">>),
                                      node.left, child_prefix, FALSE),
                          node.right, child_prefix, TRUE)
         [] node.kind = "Number" ->
              Append(out, prefix \o <<connector, "Number (value: ">> \o str(node.value) \o <<")">>)
         [] node.kind = "Variable" ->
              Append(out, prefix \o <<connector, "Variable (name: ">> \o node.name \o <<")">>)
         [] OTHER -> out

RECURSIVE Subtrees(_)
\* node and every node below it
Subtrees(node) ==
    {node} \cup
    CASE node.kind = "Program" ->
            UNION {Subtrees(node.statements[i]) : i \in 1..Len(node.statements)}
      [] node.kind = "Assignment" -> Subtrees(node.variable) \cup Subtrees(node.expression)
      [] node.kind = "BinaryOperation" -> Subtrees(node.left) \cup Subtrees(node.right)
      [] OTHER -> {}

\* the renderings one printer is asked for
MaxRenders == 3

\* print_ast without `self.output = []`
print_ast_accumulating ==
    /\ facade_pc = "returned"
    /\ Len(renders) < MaxRenders
    /\ \E node \in Subtrees(ast) :
          /\ output' = _print_node(output, node, <<>>, TRUE)
          /\ renders' = Append(renders, [node |-> node, text |-> join(output')])
    /\ UNCHANGED <<lexer_vars, parser_vars, facade_vars, caller_vars>>

\* printer.print_ast(node) on the tree parse_mini_c returned or on a node of it
print_ast ==
    /\ facade_pc = "returned"
    /\ Len(renders) < MaxRenders
    /\ \E node \in Subtrees(ast) :
          /\ output' = _print_node(<<>>, node, <<>>, TRUE)
          /\ renders' = Append(renders, [node |-> node, text |-> join(output')])
    /\ UNCHANGED <<lexer_vars, parser_vars, facade_vars, caller_vars>>

(***************************************************************************)
(* Inputs: the sources of the test suite and of the demo, the documented   *)
(* examples, and bounded families of sources built from fragments.         *)
(***************************************************************************)
\* 'int x;'
test_simple_variable ==
    <<"i", "n", "t", " ", "x", ";">>

\* 'int x; x = 5;'
test_simple_assignment ==
    <<"i", "n", "t", " ", "x", ";", " ", "x", " ", "=", " ", "5", ";">>

\* 'int x; x = 3 + 5;'
test_addition ==
    <<"i", "n", "t", " ", "x", ";", " ", "x", " ", "=", " ", "3", " ", "+", " ", "5", ";">>

\* 'int x; x = 3 * 4;'
test_multiplication ==
    <<"i", "n", "t", " ", "x", ";", " ", "x", " ", "=", " ", "3", " ", "*", " ", "4", ";">>

\* 'int x; x = 2 + 3 * 4;'
test_precedence ==
    <<"i", "n", "t", " ", "x", ";", " ", "x", " ", "=", " ", "2", " ", "+", " ", "3", " ",
      "*", " ", "4", ";">>

\* 'int x; x = (2 + 3) * 4;'
test_parentheses ==
    <<"i", "n", "t", " ", "x", ";", " ", "x", " ", "=", " ", "(", "2", " ", "+", " ", "3",
      ")", " ", "*", " ", "4", ";">>

\* 'int x; int y; x = 5; y = x + 3;'
test_variables_in_expression ==
    <<"i", "n", "t", " ", "x", ";", " ", "i", "n", "t", " ", "y", ";", " ", "x", " ", "=",
      " ", "5", ";", " ", "y", " ", "=", " ", "x", " ", "+", " ", "3", ";">>

\* 'int x; x = 5 +;'
test_syntax_error ==
    <<"i", "n", "t", " ", "x", ";", " ", "x", " ", "=", " ", "5", " ", "+", ";">>

\* 'int x; x = 5 @ 3;'
test_invalid_character ==
    <<"i", "n", "t", " ", "x", ";", " ", "x", " ", "=", " ", "5", " ", "@", " ", "3", ";">>

\* 'int x; int y; x = 5; y = x + 3 * 2;'
demo_code ==
    <<"i", "n", "t", " ", "x", ";", " ", "i", "n", "t", " ", "y", ";", " ", "x", " ", "=",
      " ", "5", ";", " ", "y", " ", "=", " ", "x", " ", "+", " ", "3", " ", "*", " ", "2",
      ";">>

\* 'x = 5 + 3 - 2;'
example_left_assoc ==
    <<"x", " ", "=", " ", "5", " ", "+", " ", "3", " ", "-", " ", "2", ";">>

\* 'int\ny;'
example_position ==
    <<"i", "n", "t", "\n", "y", ";">>

\* 'integer'
example_keyword_boundary ==
    <<"i", "n", "t", "e", "g", "e", "r">>

\* '5int;'
example_keyword_after_digit ==
    <<"5", "i", "n", "t", ";">>

TestSources ==
    {test_simple_variable, test_simple_assignment, test_addition,
     test_multiplication, test_precedence, test_parentheses,
     test_variables_in_expression, test_syntax_error, test_invalid_character,
     demo_code, example_left_assoc, example_position,
     example_keyword_boundary, example_keyword_after_digit}

MaxFragments == 3

MaxExprLen == 4

MaxOps == 2

RECURSIVE Flatten(_)
\* the concatenation of a sequence of strings
Flatten(ss) == IF ss = <<>> THEN <<>> ELSE Head(ss) \o Flatten(Tail(ss))

SeqsUpTo(S, n) == UNION {[1..k -> S] : k \in 0..n}

\* lexemes, whitespace and a character outside the alphabet
Fragments ==
    {<<"i", "n", "t">>, <<"x">>, <<"5">>, <<"_">>, <<";">>, <<"=">>, <<"+">>,
     <<" ">>, <<"\n">>, <<"@">>}

\* any sequence of at most MaxFragments fragments
FragmentSources == {Flatten(f) : f \in SeqsUpTo(Fragments, MaxFragments)}

ExprFragments == {<<"2">>, <<"x">>, <<"+">>, <<"*">>, <<"(">>, <<")">>, <<";">>}

\* an assignment whose right-hand side is any sequence of at most MaxExprLen fragments
ExprSources == {<<"x", "=">> \o Flatten(f) : f \in SeqsUpTo(ExprFragments, MaxExprLen)}

ChainFactors == {<<"2">>, <<"x">>, <<"(", "4", "-", "y", ")">>}

ChainOperators == {<<"+">>, <<"-">>, <<"*">>, <<"/">>}

RECURSIVE Chain(_, _)
\* the text `f0 op1 f1 ... opk fk` of the factors fs and the operators ops
Chain(fs, ops) ==
    IF ops = <<>> THEN Head(fs)
    ELSE Head(fs) \o Head(ops) \o Chain(Tail(fs), Tail(ops))

\* an assignment whose right-hand side is a chain of at most MaxOps operators
ChainSources ==
    {<<"x", "=">> \o Chain(fs, ops) \o <<";">> :
        <<fs, ops>> \in UNION {[1..(k + 1) -> ChainFactors] \X [1..k -> ChainOperators] : k \in 0..MaxOps}}

Sources == TestSources \cup FragmentSources \cup ExprSources \cup ChainSources

(***************************************************************************)
(* The state after parse_mini_c(source_code) has built Lexer(source_code)  *)
(***************************************************************************)
Init ==
    /\ source \in Sources
    /\ position = 0
    /\ line = 1
    /\ column = 1
    /\ tokens = <<>>
    /\ lexer_pc = "new"
    /\ p_tokens = <<>>
    /\ p_position = 0
    /\ statements = <<>>
    /\ stack = <<>>
    /\ ret = None
    /\ parser_pc = "none"
    /\ raised = None
    /\ ast = None
    /\ error = None
    /\ stdout = <<>>
    /\ facade_pc = "try"
    /\ lex_returns = <<>>
    /\ parse_returns = <<>>
    /\ output = <<>>
    /\ renders = <<>>

Next ==
    \/ TokenizeCall
    \/ TokenizeMatch
    \/ TokenizeRaise
    \/ TokenizeBreak
    \/ TokenizeReturn
    \/ ParserNew
    \/ ParseCall
    \/ ParseReturn
    \/ ParseDeclaration
    \/ ParseAssignment
    \/ ParseUnexpected
    \/ FactorNumber
    \/ FactorVariable
    \/ FactorParen
    \/ FactorUnexpected
    \/ FactorParenClose
    \/ TermOperator
    \/ TermReturn
    \/ ExpressionOperator
    \/ ExpressionReturn
    \/ AssignmentEnd
    \/ FacadeReturn
    \/ FacadeExcept

Spec == Init /\ [][Next]_vars

(***************************************************************************)
(* A caller that keeps the Lexer and the Parser and calls tokenize and     *)
(* parse again, as the classes allow; the calls are synchronous, so a call *)
(* starts only when no other one is running.                               *)
(***************************************************************************)
\* the calls of tokenize, and of parse, a caller makes on one object
MaxCalls == 2

\* tokenize called on a Lexer whose earlier call returned or raised:
\* `self.tokens = []`, the cursor is where the earlier call left it
TokenizeAgain ==
    /\ lexer_pc \in {"returned", "raised"}
    /\ parser_pc = "none"
    /\ Len(lex_returns) < MaxCalls
    /\ tokens' = <<>>
    /\ lexer_pc' = "loop"
    /\ raised' = None
    /\ UNCHANGED <<source, position, line, column, parser_vars, ast, error, stdout, facade_pc>>
    /\ UNCHANGED <<caller_vars, printer_vars>>

\* parse called on a Parser whose earlier call returned or raised:
\* `statements = []`, the token cursor is where the earlier call left it
ParseAgain ==
    /\ parser_pc \in {"returned", "raised"}
    /\ Len(parse_returns) < MaxCalls
    /\ statements' = <<>>
    /\ parser_pc' = "parse"
    /\ raised' = None
    /\ UNCHANGED <<lexer_vars, p_tokens, p_position, stack, ret, ast, error, stdout, facade_pc>>
    /\ UNCHANGED <<caller_vars, printer_vars>>

NextReuse ==
    \/ TokenizeCall
    \/ TokenizeMatch
    \/ TokenizeRaise
    \/ TokenizeBreak
    \/ TokenizeReturn
    \/ TokenizeAgain
    \/ ParserNew
    \/ ParseCall
    \/ ParseReturn
    \/ ParseDeclaration
    \/ ParseAssignment
    \/ ParseUnexpected
    \/ FactorNumber
    \/ FactorVariable
    \/ FactorParen
    \/ FactorUnexpected
    \/ FactorParenClose
    \/ TermOperator
    \/ TermReturn
    \/ ExpressionOperator
    \/ ExpressionReturn
    \/ AssignmentEnd
    \/ ParseAgain

SpecReuse == Init /\ [][NextReuse]_vars

(***************************************************************************)
(* A caller that renders what parse_mini_c returned, as demo() does        *)
(***************************************************************************)
\* 'int x;' and 'x = (1 + y) * 2;' on two lines, each ended by a newline
example_two_lines ==
    <<"i", "n", "t", " ", "x", ";", "\n",
      "x", " ", "=", " ", "(", "1", " ", "+", " ", "y", ")", " ", "*", " ", "2", ";", "\n">>

RenderSources == TestSources \cup {example_two_lines}

InitRender ==
    /\ source \in RenderSources
    /\ position = 0
    /\ line = 1
    /\ column = 1
    /\ tokens = <<>>
    /\ lexer_pc = "new"
    /\ p_tokens = <<>>
    /\ p_position = 0
    /\ statements = <<>>
    /\ stack = <<>>
    /\ ret = None
    /\ parser_pc = "none"
    /\ raised = None
    /\ ast = None
    /\ error = None
    /\ stdout = <<>>
    /\ facade_pc = "try"
    /\ lex_returns = <<>>
    /\ parse_returns = <<>>
    /\ output = <<>>
    /\ renders = <<>>

NextRender ==
    \/ Next
    \/ print_ast

SpecRender == InitRender /\ [][NextRender]_vars

(***************************************************************************)
(* What the claims speak of                                                *)
(***************************************************************************)
\* parse_mini_c has returned or raised
Finished == facade_pc # "try"

\* the tree of a factor of ChainFactors, written out by hand
FactorTree(f) ==
    CASE f = <<"2">> -> Number(2)
      [] f = <<"x">> -> Variable(<<"x">>)
      [] f = <<"(", "4", "-", "y", ")">> ->
            BinaryOperation(Number(4), <<"-">>, Variable(<<"y">>))

\* the source `x=<expression>;` and the Program of its one assignment
AssignSource(text) == <<"x", "=">> \o text \o <<";">>

AssignProgram(tree) == Program(<<Assignment(Variable(<<"x">>), tree)>>)

AdditiveOps == {<<"+">>, <<"-">>}

MultiplicativeOps == {<<"*">>, <<"/">>}

RECURSIVE AdditiveUnderMultiplicative(_)
\* some BinaryOperation with * or / in the tree has a BinaryOperation with + or -
\* as a direct child
AdditiveUnderMultiplicative(node) ==
    /\ node.kind = "BinaryOperation"
    /\ \/ /\ node.operator \in MultiplicativeOps
          /\ \E child \in {node.left, node.right} :
                child.kind = "BinaryOperation" /\ child.operator \in AdditiveOps
       \/ AdditiveUnderMultiplicative(node.left)
       \/ AdditiveUnderMultiplicative(node.right)

HasParenthesis == \E i \in 1..Len(source) : source[i] = "("

\* the value expressions of the assignments of a statement list
AssignedExpressions(stmts) ==
    {stmts[i].expression : i \in {j \in 1..Len(stmts) : stmts[j].kind = "Assignment"}}

\* every source `x=a op1 b op2 c;` with op1 in {+,-} and op2 in {*,/}, paired with
\* the Program of a op1 (b op2 c)
PrecedenceCases ==
    {<<AssignSource(a \o op1 \o b \o op2 \o c),
       AssignProgram(BinaryOperation(FactorTree(a), op1,
                        BinaryOperation(FactorTree(b), op2, FactorTree(c))))>> :
        <<a, b, c, op1, op2>> \in
            ChainFactors \X ChainFactors \X ChainFactors \X AdditiveOps \X MultiplicativeOps}

\* C1 (precedence): `a op1 b op2 c` with op1 in {+,-} and op2 in {*,/} parses, and
\* its tree is BinaryOperation(a, op1, BinaryOperation(b, op2, c)); in a source
\* without parentheses no + or - node is a direct child of a * or / node; and
\* `int x; x = 2 + 3 * 4;` yields 2 + (3 * 4).
C1_Precedence ==
    /\ Finished =>
          \A case \in PrecedenceCases :
             source = case[1] => facade_pc = "returned" /\ ast = case[2]
    /\ ~HasParenthesis =>
          \A e \in AssignedExpressions(statements) : ~AdditiveUnderMultiplicative(e)
    /\ (Finished /\ source = test_precedence) =>
          /\ facade_pc = "returned"
          /\ ast = Program(<<VariableDeclaration(<<"i", "n", "t">>, <<"x">>),
                             Assignment(Variable(<<"x">>),
                                BinaryOperation(Number(2), <<"+">>,
                                   BinaryOperation(Number(3), <<"*">>, Number(4))))>>)

\* parse_mini_c returned the tree of an unparenthesized `a + b * c`
C1_Witness ==
    /\ facade_pc = "returned"
    /\ ~HasParenthesis
    /\ Len(ast.statements) = 1
    /\ ast.statements[1].kind = "Assignment"
    /\ ast.statements[1].expression.kind = "BinaryOperation"
    /\ ast.statements[1].expression.operator = <<"+">>
    /\ ast.statements[1].expression.right.kind = "BinaryOperation"
    /\ ast.statements[1].expression.right.operator = <<"*">>

RECURSIVE LeftFold(_, _)
\* the left fold of the trees ts under the operators ops:
\* ((t0 op1 t1) op2 t2) ...
LeftFold(ts, ops) ==
    IF ops = <<>> THEN ts[1]
    ELSE BinaryOperation(LeftFold(SubSeq(ts, 1, Len(ts) - 1), SubSeq(ops, 1, Len(ops) - 1)),
                         ops[Len(ops)], ts[Len(ts)])

\* the chains of k operators all of the same level
SameLevelChains(k) ==
    [1..(k + 1) -> ChainFactors] \X ([1..k -> AdditiveOps] \cup [1..k -> MultiplicativeOps])

\* every source `x=f0 op1 f1 ... opk fk;` of 1 to MaxOps operators of one level,
\* paired with the Program of the left fold of its factors
LeftFoldCases ==
    UNION {{<<AssignSource(Chain(c[1], c[2])),
              AssignProgram(LeftFold([i \in 1..(k + 1) |-> FactorTree(c[1][i])], c[2]))>> :
               c \in SameLevelChains(k)} : k \in 1..MaxOps}

\* C2 (left-associativity): a chain of factors joined by operators of one level
\* parses, and its tree is the left fold of the factors; `5 + 3 - 2` yields
\* (5 + 3) - 2.
C2_LeftAssociative ==
    /\ Finished =>
          \A case \in LeftFoldCases :
             source = case[1] => facade_pc = "returned" /\ ast = case[2]
    /\ (Finished /\ source = example_left_assoc) =>
          /\ facade_pc = "returned"
          /\ ast = AssignProgram(BinaryOperation(
                       BinaryOperation(Number(5), <<"+">>, Number(3)), <<"-">>, Number(2)))

\* parse_mini_c returned the tree of `x=2-x+2;`, folded to the left
C2_Witness ==
    /\ facade_pc = "returned"
    /\ source = AssignSource(<<"2", "-", "x", "+", "2">>)
    /\ ast.statements[1].expression.left.kind = "BinaryOperation"
    /\ ast.statements[1].expression.left.operator = <<"-">>
    /\ ast.statements[1].expression.operator = <<"+">>

\* parse_factor is about to run: the parser needs a factor
NeedsFactor == parser_pc = "factor"

\* C3 (parenthesization): once the expression inside `(` has been parsed,
\* parse_factor returns that very tree to parse_term if the current token is `)`,
\* consuming it, and otherwise parsing fails with a ParseError whose token is
\* the current token; `int x; x = (2 + 3) * 4;` yields (2 + 3) * 4, and a
\* parenthesized factor is one operand of the operator that follows it.
C3_Parenthesized ==
    /\ [][parser_pc = "paren" =>
            IF current_token.type = "RPAREN"
            THEN /\ parser_pc' = "term"
                 /\ ret' = ret
                 /\ ret.kind \in {"BinaryOperation", "Number", "Variable"}
                 /\ p_position' = p_position + 1
                 /\ raised' = None
            ELSE /\ parser_pc' = "raised"
                 /\ raised'.kind = "ParseError"
                 /\ raised'.token = current_token]_vars
    /\ [](\A b \in ChainFactors, op \in ChainOperators :
            (Finished /\ source = AssignSource(<<"(", "4", "-", "y", ")">> \o op \o b)) =>
               /\ facade_pc = "returned"
               /\ ast = AssignProgram(BinaryOperation(
                           BinaryOperation(Number(4), <<"-">>, Variable(<<"y">>)), op,
                           FactorTree(b))))
    /\ []((Finished /\ source = test_parentheses) =>
            /\ facade_pc = "returned"
            /\ ast = Program(<<VariableDeclaration(<<"i", "n", "t">>, <<"x">>),
                               Assignment(Variable(<<"x">>),
                                  BinaryOperation(
                                     BinaryOperation(Number(2), <<"+">>, Number(3)),
                                     <<"*">>, Number(4)))>>))

\* the parser parsed the expression `2+x` inside `(`, met the end of input where
\* `)` was due and raised a ParseError at that EOF token
C3_Witness ==
    /\ parser_pc = "raised"
    /\ raised.kind = "ParseError"
    /\ raised.message = <<"Expected", "RPAREN", "got", "EOF">>
    /\ raised.token = current_token
    /\ ret = BinaryOperation(Number(2), <<"+">>, Variable(<<"x">>))

\* the token kinds after which the grammar asks for a factor
BeforeFactor == {"ASSIGN", "PLUS", "MINUS", "MULTIPLY", "DIVIDE", "LPAREN"}

\* C4 (missing operand): the parser needs a factor exactly after it consumed `=`,
\* an operator or `(`; if the current token then is no NUMBER, IDENTIFIER or
\* LPAREN, the next step raises a ParseError whose token is that current token,
\* parse_mini_c raises it and returns no tree; `int x; x = 5 +;` raises a
\* ParseError at the `;` after `+`.
C4_MissingOperand ==
    /\ [](NeedsFactor => p_position > 0 /\ p_tokens[p_position].type \in BeforeFactor)
    /\ [][(p_position' # p_position /\ p_tokens[p_position'].type \in BeforeFactor)
             => NeedsFactor']_vars
    /\ [][(NeedsFactor /\ current_token.type \notin {"NUMBER", "IDENTIFIER", "LPAREN"}) =>
            /\ parser_pc' = "raised"
            /\ raised'.kind = "ParseError"
            /\ raised'.token = current_token
            /\ ast' = None]_vars
    /\ []((Finished /\ parser_pc = "raised") =>
            /\ facade_pc = "raised"
            /\ error = raised
            /\ ast = None)
    /\ []((Finished /\ source = test_syntax_error) =>
            /\ facade_pc = "raised"
            /\ error.kind = "ParseError"
            /\ error.token = Token("SEMICOLON", <<";">>, 1, 15)
            /\ p_tokens[p_position].type = "PLUS")

\* parse_mini_c raised the ParseError of parse_factor's else branch, met at a `;`
\* that follows a `+`
C4_Witness ==
    /\ facade_pc = "raised"
    /\ error.kind = "ParseError"
    /\ error.message = <<"Unexpected token in expression", "SEMICOLON">>
    /\ p_tokens[p_position].type = "PLUS"
    /\ error.token = p_tokens[p_position + 1]

\* the characters some lexical pattern can start with
Recognized == WordChars \cup {"+", "-", "*", "/", "=", ";", "(", ")"}

Spaces == {" ", "\n", "\t", "\r"}

Least(S) == CHOOSE x \in S : \A y \in S : x <= y

Greatest(S) == CHOOSE x \in S : \A y \in S : x >= y

\* the offsets of the newline characters among the first off characters of s
NewlinesBefore(s, off) == {i \in 1..off : s[i] = "\n"}

\* the 1-based line of offset off: 1 plus the newlines before it
LineAt(s, off) == 1 + Cardinality(NewlinesBefore(s, off))

\* the 1-based column of offset off: 1 plus the characters between the last
\* newline before it (or the start of s) and off
ColumnAt(s, off) ==
    1 + off - (IF NewlinesBefore(s, off) = {} THEN 0 ELSE Greatest(NewlinesBefore(s, off)))

\* the offsets of the characters of s that are neither whitespace nor the start
\* of any lexical pattern
BadOffsets(s) == {p \in 0..(Len(s) - 1) : s[p + 1] \notin Recognized \cup Spaces}

\* the offset of the first character at or after p that is no whitespace, Len(s)
\* when there is none
NextNonSpace(s, p) ==
    Least({q \in p..Len(s) : q = Len(s) \/ s[q + 1] \notin Spaces})

\* the offset just after the maximal run of identifier characters that starts at p
RunEnd(s, p) == Least({e \in p..Len(s) : e = Len(s) \/ s[e + 1] \notin WordChars})

\* the scanner is at the head of an iteration of its main loop, about to scan at
\* the offset NextNonSpace(source, position)
Scanning == lexer_pc = "loop" /\ position < Len(source)

\* C5 (lexical error): when the cursor, past the whitespace, is at a character
\* that starts no pattern, the next step raises a LexerError and emits nothing;
\* the scanner never moves past the first such character, it raises there with
\* that character's 1-based line and column, returns no token sequence and no
\* parser is built; `int x; x = 5 @ 3;` raises a LexerError at 1:14.
C5_LexicalError ==
    /\ [][(Scanning /\ NextNonSpace(source, position) \in BadOffsets(source)) =>
            /\ lexer_pc' = "raised"
            /\ tokens' = tokens
            /\ position' = NextNonSpace(source, position)]_vars
    /\ [](BadOffsets(source) # {} =>
            /\ position <= Least(BadOffsets(source))
            /\ lexer_pc # "returned")
    /\ [](lexer_pc = "raised" =>
            /\ BadOffsets(source) # {}
            /\ position = Least(BadOffsets(source))
            /\ raised = LexerError(source[position + 1], LineAt(source, position),
                                   ColumnAt(source, position))
            /\ parser_pc = "none"
            /\ ast = None)
    /\ []((Finished /\ source = test_invalid_character) =>
            /\ facade_pc = "raised"
            /\ error = LexerError("@", 1, 14))

\* the scanner raised a LexerError at line 2, column 2, past a newline and a space
C5_Witness ==
    /\ lexer_pc = "raised"
    /\ raised.kind = "LexerError"
    /\ raised.line = 2
    /\ raised.column = 2

\* C6 (facade): parse_mini_c returns exactly when the scanner and the parser both
\* returned, and then it returns the parser's Program; otherwise it raises the
\* very exception the failing stage raised and returns nothing; a source with an
\* unrecognized character never reaches the parser and fails with a LexerError.
C6_Facade ==
    /\ facade_pc = "try" => ast = None /\ error = None
    /\ facade_pc = "returned" =>
          /\ lexer_pc = "returned"
          /\ parser_pc = "returned"
          /\ raised = None
          /\ error = None
          /\ ast = ret
          /\ ast.kind = "Program"
    /\ facade_pc = "raised" =>
          /\ ast = None
          /\ error = raised
          /\ \/ lexer_pc = "raised" /\ parser_pc = "none" /\ error.kind = "LexerError"
             \/ lexer_pc = "returned" /\ parser_pc = "raised" /\ error.kind = "ParseError"
    /\ (lexer_pc = "returned" /\ parser_pc = "returned") => raised = None
    /\ BadOffsets(source) # {} =>
          /\ parser_pc = "none"
          /\ facade_pc # "returned"
          /\ Finished => error.kind = "LexerError"

\* parse_mini_c raised a LexerError for a source whose first token, a `;`, already
\* breaks the grammar
C6_Witness ==
    /\ facade_pc = "raised"
    /\ error.kind = "LexerError"
    /\ tokens # <<>>
    /\ tokens[1].type = "SEMICOLON"

\* C7 (end marker): the token sequence tokenize returns is not empty, its last
\* token is EOF with empty text at the final cursor position, which is the end of
\* the source, and no other token is EOF; for an empty or whitespace-only source
\* it is that one token.
C7_EndOfInput ==
    /\ \A i \in 1..(Len(tokens) - 1) : tokens[i].type # "EOF"
    /\ lexer_pc = "loop" => \A i \in 1..Len(tokens) : tokens[i].type # "EOF"
    /\ lexer_pc = "returned" =>
          /\ tokens # <<>>
          /\ tokens[Len(tokens)] = Token("EOF", <<>>, line, column)
          /\ position = Len(source)
          /\ line = LineAt(source, Len(source))
          /\ column = ColumnAt(source, Len(source))
          /\ (\A i \in 1..Len(source) : source[i] \in Spaces) => Len(tokens) = 1

\* tokenize returned the single EOF token, at line 2, for a source of a newline
\* and a space
C7_Witness ==
    /\ lexer_pc = "returned"
    /\ source = <<"\n", " ">>
    /\ tokens = <<Token("EOF", <<>>, 2, 2)>>

\* the text at offset q of the source is `int`
AtInt(q) == q + 3 <= Len(source) /\ SubSeq(source, q + 1, q + 3) = <<"i", "n", "t">>

\* C8 (keyword boundary): when the cursor, past the whitespace, is at `int`
\* followed at once by a letter, digit or underscore, the step emits one
\* IDENTIFIER token whose text is the whole maximal run of identifier characters
\* and moves the cursor past that run; `integer` lexes as one IDENTIFIER.
C8_KeywordBoundary ==
    /\ [][LET q == NextNonSpace(source, position)
          IN (Scanning /\ AtInt(q) /\ q + 3 < Len(source) /\ source[q + 4] \in WordChars) =>
                /\ tokens' = Append(tokens,
                      Token("IDENTIFIER", SubSeq(source, q + 1, RunEnd(source, q)),
                            LineAt(source, q), ColumnAt(source, q)))
                /\ position' = RunEnd(source, q)]_vars
    /\ []((lexer_pc = "returned" /\ source = example_keyword_boundary) =>
            tokens = <<Token("IDENTIFIER", <<"i", "n", "t", "e", "g", "e", "r">>, 1, 1),
                       Token("EOF", <<>>, 1, 8)>>)

\* tokenize returned one IDENTIFIER token `int_` for the source ` int_`
C8_Witness ==
    /\ lexer_pc = "returned"
    /\ source = <<" ", "i", "n", "t", "_">>
    /\ tokens[1] = Token("IDENTIFIER", <<"i", "n", "t", "_">>, 1, 2)
    /\ Len(tokens) = 2

\* C9 (keyword recognition), as claimed: when the cursor, past the whitespace, is
\* at `int` not followed by a letter, digit or underscore, the step emits an INT
\* token; no IDENTIFIER token ever has the text `int`.
C9_KeywordRecognition ==
    /\ [][LET q == NextNonSpace(source, position)
          IN (Scanning /\ AtInt(q) /\ (q + 3 = Len(source) \/ source[q + 4] \notin WordChars)) =>
                tokens' = Append(tokens, Token("INT", <<"i", "n", "t">>,
                                               LineAt(source, q), ColumnAt(source, q)))]_vars
    /\ [](\A i \in 1..Len(tokens) :
            ~(tokens[i].type = "IDENTIFIER" /\ tokens[i].value = <<"i", "n", "t">>))

\* C10 (position accuracy): every step that emits a token appends one token whose
\* text is the source from its start offset to the new cursor and whose line and
\* column are those of the start offset, counted from the newlines before it;
\* for `int\ny;` the `y` token has line 2, column 1.
C10_PositionAccuracy ==
    /\ [][(lexer_pc = "loop" /\ tokens' # tokens) =>
            LET t == tokens'[Len(tokens')]
                start == position' - Len(t.value)
            IN /\ tokens' = Append(tokens, t)
               /\ start >= position
               /\ t.value = SubSeq(source, start + 1, position')
               /\ t.line = LineAt(source, start)
               /\ t.column = ColumnAt(source, start)]_vars
    /\ []((lexer_pc = "returned" /\ source = example_position) =>
            /\ tokens[1] = Token("INT", <<"i", "n", "t">>, 1, 1)
            /\ tokens[2] = Token("IDENTIFIER", <<"y">>, 2, 1)
            /\ tokens[3] = Token("SEMICOLON", <<";">>, 2, 2))

\* tokenize returned, for `int\ny;`, the `y` token at line 2, column 1
C10_Witness ==
    /\ lexer_pc = "returned"
    /\ source = example_position
    /\ tokens[2].value = <<"y">>
    /\ tokens[2].line = 2
    /\ tokens[2].column = 1

(***************************************************************************)
(* C11: the shape of the trees Parser.parse builds                         *)
(***************************************************************************)

Operators == {<<"+">>, <<"-">>, <<"*">>, <<"/">>}

RECURSIVE ExpressionShape(_)
\* node is an expression tree: BinaryOperation, Number and Variable nodes only
ExpressionShape(node) ==
    CASE node.kind = "BinaryOperation" ->
            /\ node.operator \in Operators
            /\ ExpressionShape(node.left)
            /\ ExpressionShape(node.right)
      [] node.kind = "Number" -> node.value \in Nat
      [] node.kind = "Variable" -> TRUE
      [] OTHER -> FALSE

\* node is a statement: a declaration of type int or an assignment to a Variable
StatementShape(node) ==
    CASE node.kind = "VariableDeclaration" -> node.var_type = <<"i", "n", "t">>
      [] node.kind = "Assignment" ->
            /\ node.variable.kind = "Variable"
            /\ ExpressionShape(node.expression)
      [] OTHER -> FALSE

\* node is a Program of statements, with no Program below the root
ProgramShape(node) ==
    /\ node.kind = "Program"
    /\ \A i \in 1..Len(node.statements) : StatementShape(node.statements[i])

\* the step completes a declaration: the statement loop appends a statement
\* while the current token is the keyword
DeclarationStep ==
    /\ parser_pc = "parse"
    /\ current_token.type = "INT"
    /\ statements' # statements

\* C11: every tree Parser.parse returns is a Program whose statements are
\* declarations of type "int" or assignments to a Variable, whose expressions
\* are built of BinaryOperation, Number and Variable nodes only, with operators
\* among + - * / and non-negative Number values, and no Program below the
\* root; the statements collected so far already have that shape; a completed
\* declaration 'int <id>;' appends a VariableDeclaration named by the exact text
\* of the identifier token; 'int x;' yields Program([VariableDeclaration(int, x)]).
C11_TreeShape ==
    /\ [](/\ \A i \in 1..Len(statements) : StatementShape(statements[i])
          /\ parser_pc = "returned" => ProgramShape(ret)
          /\ \A i \in 1..Len(parse_returns) : ProgramShape(parse_returns[i])
          /\ facade_pc = "returned" => ProgramShape(ast)
          /\ (facade_pc = "returned" /\ source = test_simple_variable) =>
                ast = Program(<<VariableDeclaration(<<"i", "n", "t">>, <<"x">>)>>))
    /\ [][DeclarationStep =>
            /\ p_tokens[p_position + 2].type = "IDENTIFIER"
            /\ p_tokens[p_position + 3].type = "SEMICOLON"
            /\ statements' = Append(statements,
                    VariableDeclaration(<<"i", "n", "t">>, p_tokens[p_position + 2].value))]_vars

\* a returned tree with a declaration and an assignment of a binary operation
C11_Witness ==
    /\ facade_pc = "returned"
    /\ Len(ast.statements) = 2
    /\ ast.statements[1].kind = "VariableDeclaration"
    /\ ast.statements[1].name # <<"i", "n", "t">>
    /\ ast.statements[2].kind = "Assignment"
    /\ ast.statements[2].expression.kind = "BinaryOperation"

(***************************************************************************)
(* C14: termination                                                        *)
(***************************************************************************)

\* what the parser still has to do: the tokens not consumed, weighted above the
\* frames one step can push, and the frames to return from
Remaining == 4 * (Len(p_tokens) - p_position) + Len(stack)

ParserRunning == {"parse", "factor", "term", "expression", "paren", "assignment"}

\* what the whole call still has to do, an upper bound on the steps left: the
\* characters not scanned, the parser's Remaining (before the Parser exists, a
\* bound on it: tokenize returns at most one token per character and EOF), and
\* the return or except of the facade
Work ==
    (CASE lexer_pc = "new" -> Len(source) + 2
       [] lexer_pc = "loop" -> Len(source) - position + 1
       [] OTHER -> 0)
    + (CASE parser_pc = "none" -> 4 * (Len(source) + 1) + 3
         [] parser_pc = "new" -> 4 * Len(p_tokens) + 2
         [] parser_pc \in ParserRunning -> Remaining + 1
         [] OTHER -> 0)
    + (IF facade_pc = "try" THEN 1 ELSE 0)

\* some pattern matches at the first character after the whitespace: the guard
\* of the iteration that emits a token, whose assignments can always be made
Matching ==
    /\ lexer_pc = "loop"
    /\ position < Len(source)
    /\ LET c == skip_whitespace(source, Cursor)
       IN /\ c.position < Len(source)
          /\ FirstMatch(source, c.position) > 0

\* a step of parse_mini_c is possible
CanStep ==
    IF lexer_pc = "loop"
    THEN Matching \/ ENABLED (TokenizeRaise \/ TokenizeBreak \/ TokenizeReturn)
    ELSE ENABLED (TokenizeCall \/ ParserNew \/ ParseCall \/ ParseReturn
                    \/ ParseDeclaration \/ ParseAssignment \/ ParseUnexpected
                    \/ FactorNumber \/ FactorVariable \/ FactorParen \/ FactorUnexpected
                    \/ FactorParenClose \/ TermOperator \/ TermReturn
                    \/ ExpressionOperator \/ ExpressionReturn \/ AssignmentEnd
                    \/ FacadeReturn \/ FacadeExcept)

\* C14: tokenize terminates with a token list or a LexerError, and each
\* iteration of its loop that goes on has moved the cursor forward by at least
\* one character; Parser.parse terminates with a Program or a ParseError: every
\* step of it that goes on consumes a token or returns from a frame, every
\* descent into a parenthesized expression and every completed iteration of the
\* statement loop consumes at least one token, and the cursor never passes the
\* EOF token.  Termination is the well-founded descent of Work: it is a natural
\* number, every step lowers it, and a step is possible until parse_mini_c has
\* returned or raised; the lexer and the parser are then at "returned" or
\* "raised" unless the lexer's failure kept the parser from being created.
C14_Termination ==
    /\ [](/\ Work \in Nat
          /\ Finished \/ CanStep
          /\ Finished =>
                /\ lexer_pc \in {"returned", "raised"}
                /\ parser_pc \in {"returned", "raised"} \/ lexer_pc = "raised")
    /\ [][Work' < Work]_vars
    /\ [][(lexer_pc = "loop" /\ lexer_pc' = "loop") =>
            /\ position' > position
            /\ position' <= Len(source)]_vars
    /\ [][(parser_pc \in ParserRunning /\ parser_pc' \in ParserRunning) =>
            /\ Remaining' < Remaining
            /\ p_position' < Len(p_tokens)
            /\ (parser_pc = "factor" /\ current_token.type = "LPAREN") =>
                    p_position' > p_position
            /\ (parser_pc' = "parse") => p_position' > p_position]_vars

\* the pipeline has finished on a source with a parenthesized expression
C14_Witness ==
    /\ facade_pc = "returned"
    /\ \E i \in 1..Len(source) : source[i] = "("
    /\ \E i \in 1..Len(source) : IsSpace(source[i])

(***************************************************************************)
(* C15: what parse_mini_c writes                                           *)
(***************************************************************************)

\* C15 as stated: parse_mini_c writes nothing to any output stream on any path.
C15_NoOutput == stdout = <<>>

\* C15, amended: parse_mini_c writes nothing while it runs and nothing when it
\* returns a Program; when the scanner or the parser fails it prints exactly
\* one line to standard output, "Error: " followed by the text of the
\* exception, and then raises that same exception; 'int x; x = 5 +;' prints
\* "Error: Parse Error at 1:15: Unexpected token in expression: SEMICOLON" and
\* 'int x; x = 5 @ 3;' prints "Error: Lexer Error at 1:14: Unexpected character '@'".
C15_OutputOnFailureOnly ==
    /\ facade_pc \in {"try", "returned"} => stdout = <<>>
    /\ facade_pc = "returned" => error = None /\ ast.kind = "Program"
    /\ facade_pc = "raised" =>
          /\ error.kind \in {"LexerError", "ParseError"}
          /\ error = raised
          /\ ast = None
          /\ stdout = << <<"Error:", ErrorText(error)>> >>
    /\ (facade_pc = "raised" /\ source = test_syntax_error) =>
          stdout = << <<"Error:", <<"Parse Error at", 1, 15,
                                   <<"Unexpected token in expression", "SEMICOLON">> >> >> >>
    /\ (facade_pc = "raised" /\ source = test_invalid_character) =>
          stdout = << <<"Error:", <<"Lexer Error at", 1, 14, "Unexpected character", "@">> >> >>

\* parse_mini_c raised a ParseError after printing its line
C15_Witness ==
    /\ facade_pc = "raised"
    /\ error.kind = "ParseError"
    /\ Len(stdout) = 1
    /\ stdout[1][1] = "Error:"

(***************************************************************************)
(* C16: tokenize and parse called again on the same object                 *)
(***************************************************************************)

\* C16: every call of tokenize on one Lexer returns the token list its first
\* call returned, and every call of parse on one Parser returns the tree its
\* first call returned.
C16_Reinvocation ==
    /\ \A i \in 1..Len(lex_returns) : lex_returns[i] = lex_returns[1]
    /\ \A i \in 1..Len(parse_returns) : parse_returns[i] = parse_returns[1]

(***************************************************************************)
(* C12, C13: the text print_ast returns                                    *)
(***************************************************************************)

RECURSIVE SplitLines(_)
\* the lines of a text, split at its newline pieces
SplitLines(text) ==
    LET breaks == {i \in 1..Len(text) : text[i] = "\n"}
    IN IF breaks = {} THEN <<text>>
       ELSE <<SubSeq(text, 1, Least(breaks) - 1)>>
                \o SplitLines(SubSeq(text, Least(breaks) + 1, Len(text)))

RECURSIVE Unindent(_)
\* a line without the ancestor prefix in front of it
Unindent(ln) ==
    IF ln # <<>> /\ ln[1] \in {Blank, Bar} THEN Unindent(Tail(ln)) ELSE ln

\* what the line of a node says about the node
Label(node) ==
    CASE node.kind = "Program" -> <<"Program">>
      [] node.kind = "VariableDeclaration" ->
            <<"VariableDeclaration (type: ">> \o node.var_type \o <<", name: ">> \o node.name \o <<")">>
      [] node.kind = "Assignment" -> <<"Assignment">>
      [] node.kind = "BinaryOperation" ->
            <<"BinaryOperation (operator: ">> \o node.operator \o <<")">>
      [] node.kind = "Number" -> <<"Number (value: ">> \o str(node.value) \o <<")">>
      [] node.kind = "Variable" -> <<"Variable (name: ">> \o node.name \o <<")">>

RECURSIVE PreOrder(_, _, _)
RECURSIVE PreOrderFrom(_, _)
\* the nodes of the statements from the i-th on, depth first, parents first
PreOrderFrom(stmts, i) ==
    IF i > Len(stmts) THEN <<>>
    ELSE PreOrder(stmts[i], FALSE, i = Len(stmts)) \o PreOrderFrom(stmts, i + 1)

\* the nodes of a tree depth first, parents first, children in order; each
\* with whether it is the root of the tree and whether it is a last sibling
PreOrder(node, root, last) ==
    <<[node |-> node, root |-> root, last |-> last]>> \o
    CASE node.kind = "Program" -> PreOrderFrom(node.statements, 1)
      [] node.kind = "Assignment" ->
            PreOrder(node.variable, FALSE, FALSE) \o PreOrder(node.expression, FALSE, TRUE)
      [] node.kind = "BinaryOperation" ->
            PreOrder(node.left, FALSE, FALSE) \o PreOrder(node.right, FALSE, TRUE)
      [] OTHER -> <<>>

\* the text has one line per node of the tree in pre-order; behind the ancestor
\* prefix the root's line is the bare label, and every other line is the label
\* behind the connector of a last or of an earlier sibling
FormatOf(tree, text) ==
    LET lines == SplitLines(text)
        nodes == PreOrder(tree, TRUE, TRUE)
    IN /\ Len(lines) = Len(nodes)
       /\ \A i \in 1..Len(nodes) :
             Unindent(lines[i]) =
                (IF nodes[i].root THEN <<>>
                 ELSE <<IF nodes[i].last THEN LastConnector ELSE MidConnector>>)
                \o Label(nodes[i].node)

\* C12: for every node passed to print_ast, a whole Program or a subtree, the
\* text has exactly one line per node in depth-first pre-order, and a line
\* carries a connector exactly when its node is not the root of the rendered
\* tree: the last-sibling connector or the earlier-sibling one; the root's line
\* carries none.
C12_RenderFormat ==
    \A i \in 1..Len(renders) : FormatOf(renders[i].node, renders[i].text)

\* C13: the text print_ast returns for a tree is the text a fresh printer
\* returns for it, whatever the printer rendered before, so rendering a tree
\* twice yields the same text twice; self.output holds the lines of the last
\* rendering only; rendering changes nothing of the tree parse_mini_c returned,
\* which still holds the node rendered.
C13_RenderIdempotent ==
    /\ [](/\ \A i \in 1..Len(renders) :
                renders[i].text = join(_print_node(<<>>, renders[i].node, <<>>, TRUE))
          /\ \A i, j \in 1..Len(renders) :
                renders[i].node = renders[j].node => renders[i].text = renders[j].text
          /\ renders # <<>> => join(output) = renders[Len(renders)].text
          /\ renders # <<>> => \A i \in 1..Len(renders) : renders[i].node \in Subtrees(ast))
    /\ [][renders' # renders =>
            /\ ast' = ast
            /\ renders' = Append(renders, renders'[Len(renders')])]_vars

\* one printer rendered an assignment and then twice the whole Program
C13_Witness ==
    /\ Len(renders) = 3
    /\ renders[1].node.kind = "Assignment"
    /\ renders[2].node = ast
    /\ renders[3].node = ast
    /\ Len(ast.statements) > 1

====
